---- MODULE Spec2Model ----
(***************************************************************************)
(* Weather-aware scheduler: the decision workflow of src/graph (six nodes  *)
(* and their conditional edges) together with the slot parser, the slot    *)
(* validator and the reference weather / calendar oracles it calls.        *)
(*                                                                         *)
(* The workflow state is the mapping that the graph threads from node to   *)
(* node: every node receives it, mutates it and returns it.  Times are     *)
(* minutes counted from Monday 00:00 of the current week, so weekday, hour *)
(* and minute are computed from a time exactly as datetime does.  Message  *)
(* strings are kept as tags; the substring tests the code performs on them *)
(* are answered by Words, a table built from the literal message texts.    *)
(***************************************************************************)
EXTENDS Integers, Sequences, FiniteSets, TLC

\* ------------------------------------------------------------------ bounds
\* largest advance of the wall clock between Slot construction and validate_slot
MaxTick == 2
\* largest clarification_count a caller carries into an invocation
MaxEntryCount == 1
\* number of node executions after which the graph runtime stops an invocation
MaxSteps == 25
\* number of invocations a caller makes in one request lifecycle
MaxTurns == 3
\* largest distance, in minutes, between a slot's start and the validator's clock
MaxSkew == 2

\* ------------------------------------------------------- program constants
MaxAttempts == 2
MinDuration == 5
MaxDuration == 480
DefaultDuration == 60
DefaultHour == 14
SearchHours == 8
SearchStep == 30
HighThreshold == 60
ModerateThreshold == 30
MockHighProb == 65
MockLowProb == 15
RainyWeekday == 4
RainyStartHour == 14
RainyEndHour == 16
BusyWeekday == 4
BusyHour == 15
BusyMinute == 0
BusyDuration == 30
RetryCeiling == 2
MaxProb == 100

\* -------------------------------------------------------------------- time
DayMinutes == 24 * 60
Weekday(t) == (t \div DayMinutes) % 7
Hour(t) == (t % DayMinutes) \div 60
Minute(t) == t % 60
DateOf(t) == t - (t % DayMinutes)
NoTime == 0 - 1
\* the frozen clock of the integration tests: a Friday, 10:00
FridayTen == 4 * DayMinutes + 10 * 60
NowChoices == {FridayTen}

\* ---------------------------------------------------------------- requests
\* A request text is represented by the tokens the extractors look for:
\*   city   the known-city token ("" when the text names no city)
\*   day    "none", "today", "tomorrow" or a weekday name 0..6 with kind "weekday"
\*   clock  <<>> when the text has no clock token, else <<hour, minute, period>>
\*          with period "", "am" or "pm"; a clock token precedes a duration token
\*   dur    0 when the text has no duration token, else its number of minutes
\*   meet   the attendee name following "meet" ("" when absent)
\*   empty  the text is empty or blank
\* The texts carry no time-of-day keyword (morning, afternoon, evening) and
\* no digits other than those of the clock and duration tokens.
NoClock == <<>>
Req(city, day, wd, clock, dur, meet) ==
  [city |-> city, day |-> day, wd |-> wd, clock |-> clock, dur |-> dur,
   meet |-> meet, empty |-> FALSE]
EmptyReq ==
  [city |-> "", day |-> "none", wd |-> 0, clock |-> NoClock, dur |-> 0,
   meet |-> "", empty |-> TRUE]
Cities == {"", "Taipei"}
Days == {<<"none", 0>>, <<"today", 0>>, <<"weekday", 4>>}
Clocks ==
  {NoClock, <<9, 0, "">>, <<10, 1, "">>, <<2, 0, "pm">>, <<14, 45, "">>, <<15, 0, "">>}
Durations == {0, 60, 2, 600}
Requests ==
  {EmptyReq} \cup
  {Req(c, d[1], d[2], k, n, "Alice") :
     c \in Cities, d \in Days, k \in Clocks, n \in Durations}

\* ------------------------------------------------------------ time_utils.py
ClockHour(k) ==
  IF k[3] = "pm" /\ k[1] # 12 THEN k[1] + 12
  ELSE IF k[3] = "am" /\ k[1] = 12 THEN 0
  ELSE k[1]

\* the first one or two digits of the duration number, which the time
\* pattern matches when no clock token precedes it
LeadingDigits(n) == IF n < 100 THEN n ELSE IF n < 1000 THEN n \div 10 ELSE n \div 100

\* _extract_time: <<hour, minute>>
_extract_time(req) ==
  IF req.clock # NoClock THEN <<ClockHour(req.clock), req.clock[2]>>
  ELSE IF req.dur # 0 THEN <<LeadingDigits(req.dur), 0>>
  ELSE <<DefaultHour, 0>>

\* _next_weekday keeping today when today is the target weekday
_next_weekday_SameDayAllowed(current, target_weekday) ==
  LET days_ahead == target_weekday - Weekday(current)
  IN  current + (IF days_ahead < 0 THEN days_ahead + 7 ELSE days_ahead) * DayMinutes

_next_weekday(current, target_weekday) ==
  LET days_ahead == target_weekday - Weekday(current)
  IN  current + (IF days_ahead <= 0 THEN days_ahead + 7 ELSE days_ahead) * DayMinutes

\* _extract_date: without a date word the general date parser runs with
\* today as its default anchor.  The loop over the day names comes before
\* the test for "next week", so a text with both takes the day-name branch.
_extract_date(req, now) ==
  IF req.day = "today" THEN now
  ELSE IF req.day = "tomorrow" THEN now + DayMinutes
  ELSE IF req.day \in {"weekday", "next week weekday"} THEN _next_weekday(now, req.wd)
  ELSE IF req.day = "next week" THEN now + 7 * DayMinutes
  ELSE now

\* parse_relative_time: datetime.replace raises on an hour or minute out of range
parse_relative_time(req, now) ==
  LET hm == _extract_time(req)
      d  == _extract_date(req, now)
  IN  IF hm[1] > 23 \/ hm[2] > 59
      THEN [ok |-> FALSE, dt |-> NoTime]
      ELSE [ok |-> TRUE, dt |-> DateOf(d) + hm[1] * 60 + hm[2]]

\* ---------------------------------------------------------------- parser.py
\* the keyword list is matched against the lowered text as substrings, so a
\* word that merely contains "am" or "pm" counts: Sam, but not Alice
KeywordInside(word) == word \in {"Sam"}
_has_explicit_time_reference(req) ==
  req.day # "none" \/ req.clock # NoClock \/ KeywordInside(req.meet)

\* _extract_duration without its default
_extract_duration_NoDefault(req) == req.dur

_extract_duration(req) == IF req.dur = 0 THEN DefaultDuration ELSE req.dur

_extract_attendees(req) == IF req.meet = "" THEN <<"Unknown">> ELSE <<req.meet>>

NoSlot == [city |-> "", datetime |-> NoTime, duration |-> 0, attendees |-> <<>>]

\* The Slot model's field constraints, evaluated when the parser builds the Slot
SlotInvariantHolds(city, dt, duration, now) ==
  /\ city # ""
  /\ dt > now
  /\ duration >= MinDuration
  /\ duration <= MaxDuration

\* error messages of the parser, as tags
ParseErrorTag(noCity, noCue, badTime) ==
  IF noCity /\ noCue THEN "parse:city+time"
  ELSE IF noCity /\ badTime THEN "parse:city+unparsable"
  ELSE IF noCity THEN "parse:city"
  ELSE IF noCue THEN "parse:time"
  ELSE "parse:unparsable"

\* parse_natural_language: kind is "ok", "ParseError" (raised by the parser
\* itself) or "SlotError" (the validation error raised by the Slot the
\* parser constructs, which is neither ParseError nor the validator's error)
parse_natural_language(req, now) ==
  IF req.empty THEN [kind |-> "ParseError", msg |-> "parse:empty", slot |-> NoSlot]
  ELSE
    LET noCity  == req.city = ""
        r       == parse_relative_time(req, now)
        badTime == ~r.ok
        noCue   == r.ok /\ ~_has_explicit_time_reference(req)
        dur     == _extract_duration(req)
    IN  IF noCity \/ badTime \/ noCue
        THEN [kind |-> "ParseError", msg |-> ParseErrorTag(noCity, noCue, badTime),
              slot |-> NoSlot]
        ELSE IF ~SlotInvariantHolds(req.city, r.dt, dur, now)
        THEN [kind |-> "SlotError", msg |-> "slot:invalid", slot |-> NoSlot]
        ELSE [kind |-> "ok", msg |-> "",
              slot |-> [city |-> req.city, datetime |-> r.dt, duration |-> dur,
                        attendees |-> _extract_attendees(req)]]

\* ------------------------------------------------------------- validator.py
\* validate_slot: "" when the slot is valid, else the tag of the message raised
strip(text) == IF text = " " THEN "" ELSE text
validate_slot(slot, now) ==
  IF slot.city = "" \/ strip(slot.city) = "" THEN "valid:city"
  ELSE IF slot.datetime < now THEN "valid:past"
  ELSE IF slot.duration < MinDuration \/ slot.duration > MaxDuration THEN "valid:duration"
  ELSE ""

\* The words the workflow searches for in a (lower-cased) message
Words(msg) ==
  CASE msg = "parse:city+time"       -> {"city", "location", "time", "datetime"}
    [] msg = "parse:city+unparsable" -> {"city", "location", "time"}
    [] msg = "parse:city"            -> {"city", "location"}
    [] msg = "parse:time"            -> {"time", "datetime"}
    [] msg = "parse:unparsable"      -> {"time"}
    [] msg = "parse:empty"           -> {}
    [] msg = "valid:city"            -> {"city", "location"}
    [] msg = "valid:past"            -> {"time"}
    [] msg = "valid:duration"        -> {"duration"}
    [] msg = "svc:weather"           -> {"weather", "service", "error"}
    [] msg = "svc:calendar"          -> {"calendar", "service", "error"}
    [] msg = "format_example"        -> {"time", "location", "duration"}
    [] OTHER                         -> {}


\* ------------------------------------------------------------------- state
VARIABLES
  st,             \* the workflow state mapping threaded through the nodes
  pc,             \* the node about to run; "START", "END" or "RAISED"
  request,        \* the request text of this invocation
  now,            \* wall clock when the invocation starts
  weatherMode,    \* weather backend: "ok", "down" (every call fails), "flaky" (first call fails)
  calendarMode,   \* availability backend: "ok", "down", "flaky"
  createFails,    \* create_event raises CalendarServiceError
  forecastProb,   \* NoProb: the rule-based oracle; else the rain probability the oracle reports
  forecastTier,   \* NoTier, or the risk category the language model of the real oracle returns
  weatherCalls,   \* invocations of get_forecast
  calendarCalls,  \* invocations of check_slot_availability
  createCalls,    \* invocations of create_event
  lastEventId,    \* the identifier most recently generated by create_event
  path,           \* the nodes executed so far, in order
  parseKind,      \* outcome of the parse stage: "", "ok", "ParseError", "SlotError", "ValidationError"
  entryCount,     \* clarification_count the caller passed in
  preFinal,       \* the state on which create_event_node ran
  again,          \* the EventSummary of a second create_event_node call on preFinal
  turn,           \* index of the current invocation in the caller's request lifecycle
  clarificationRequests,  \* earlier invocations that ended with a clarification request
  unit,           \* a direct call of a library function: its arguments and result
  _weather_tool,  \* nodes.py module global: the weather oracle the node functions call
  _calendar_tool, \* nodes.py module global: the calendar oracle the node functions call
  graphs,         \* per workflow instance: the oracles build_graph created for it
  used            \* per workflow instance: the oracles its stages called last

vars == <<st, pc, request, now, weatherMode, calendarMode, createFails, forecastProb,
          weatherCalls, calendarCalls, createCalls, lastEventId, path, parseKind,
          entryCount, preFinal, again, forecastTier, turn, clarificationRequests, unit,
          _weather_tool, _calendar_tool, graphs, used>>

NoProb == 0 - 1
Modes == {"ok", "down", "flaky"}
ForecastChoices == {NoProb, 20, 45}
NoTier == ""
\* what the language model behind the real oracle may answer: a probability
\* and a risk category of its own choosing
LLMTiers == {"low", "high"}
LLMProbRain == 70

\* ---------------------------------------------------------- models/entities
\* WeatherCondition.categorize_risk: a RiskCategory instance passes through,
\* anything else is replaced by the tier derived from prob_rain
RiskCategory == {"high", "moderate", "low"}
NotAnEnum == "str"
\* the thresholds read as strict lower bounds
risk_from_prob_Strict(prob_rain) ==
  IF prob_rain > HighThreshold THEN "high"
  ELSE IF prob_rain > ModerateThreshold THEN "moderate"
  ELSE "low"

risk_from_prob(prob_rain) ==
  IF prob_rain >= HighThreshold THEN "high"
  ELSE IF prob_rain >= ModerateThreshold THEN "moderate"
  ELSE "low"
categorize_risk(v, prob_rain) ==
  IF v \in RiskCategory THEN v ELSE risk_from_prob(prob_rain)

\* services/policy.py, categorize_rain_risk: the same mapping, on its own
categorize_rain_risk(prob_rain) ==
  IF prob_rain >= 60 THEN "high"
  ELSE IF prob_rain >= 30 THEN "moderate"
  ELSE "low"

NoWeather == [set |-> FALSE, prob_rain |-> 0, risk_category |-> "none"]
WeatherCondition(prob_rain, v) ==
  [set |-> TRUE, prob_rain |-> prob_rain, risk_category |-> categorize_risk(v, prob_rain)]

\* -------------------------------------------------------- models/outputs.py
NoSummary ==
  [set |-> FALSE, status |-> "", summary_text |-> "", reason |-> "", notes |-> <<>>,
   alternatives |-> <<>>, event_id |-> 0]
\* an EventSummary that does not keep the alternatives it is given
EventSummary_DropsAlternatives(status, summary_text, reason, notes, alternatives, event_id) ==
  [set |-> TRUE, status |-> status, summary_text |-> summary_text, reason |-> reason,
   notes |-> notes, alternatives |-> <<>>, event_id |-> event_id]

\* EventSummary declares no suggested_time field, so one passed to it is dropped
EventSummary(status, summary_text, reason, notes, alternatives, event_id) ==
  [set |-> TRUE, status |-> status, summary_text |-> summary_text, reason |-> reason,
   notes |-> notes, alternatives |-> alternatives, event_id |-> event_id]

NoDecision == [set |-> FALSE, action |-> "", reason |-> "", notes |-> <<>>]
PolicyDecision(action, reason, notes) ==
  [set |-> TRUE, action |-> action, reason |-> reason, notes |-> notes]

\* ------------------------------------------------------------ mock_weather
\* the rule-based oracle with its rainy window opening an hour late
MockWeather_get_forecast_LateWindow(t) ==
  IF Weekday(t) = RainyWeekday /\ RainyStartHour + 1 <= Hour(t) /\ Hour(t) < RainyEndHour
  THEN WeatherCondition(MockHighProb, "high")
  ELSE WeatherCondition(MockLowProb, "low")

\* MockWeatherTool.get_forecast with the default (empty) context
MockWeather_get_forecast(t) ==
  IF Weekday(t) = RainyWeekday /\ RainyStartHour <= Hour(t) /\ Hour(t) < RainyEndHour
  THEN WeatherCondition(MockHighProb, "high")
  ELSE WeatherCondition(MockLowProb, "low")

\* the patched oracle of test_weather_service_succeeds_on_retry: the tier is
\* passed as a plain string
Patched_get_forecast(p) == WeatherCondition(p, NotAnEnum)

\* RealWeatherTool.get_forecast: the category the language model returned is
\* looked up in risk_map (LOW when unknown) and passed as an enum member
risk_map(tier) == IF tier \in RiskCategory THEN tier ELSE "low"
RealWeather_get_forecast(p, tier) == WeatherCondition(p, risk_map(tier))

\* the oracle configure_tools installed
get_forecast(t) ==
  IF forecastTier # NoTier THEN RealWeather_get_forecast(forecastProb, forecastTier)
  ELSE IF forecastProb = NoProb THEN MockWeather_get_forecast(t)
  ELSE Patched_get_forecast(forecastProb)

\* ----------------------------------------------------------- mock_calendar
\* the candidates listed farthest first
_generate_candidates_FarthestFirst(conflict_dt) ==
  <<conflict_dt + 120, conflict_dt + 60, conflict_dt + 30>>

_generate_candidates(conflict_dt) ==
  <<conflict_dt + 30, conflict_dt + 60, conflict_dt + 120>>

NoAvailability ==
  [status |-> "none", conflicting_time |-> NoTime, conflict_duration |-> 0,
   next_available |-> NoTime, candidates |-> <<>>]

\* check_slot_availability generating its candidates from half an hour
\* before the conflict, so that the first one is the requested start
check_slot_availability_CandidatesFromRequest(t, duration_min) ==
  IF Weekday(t) = BusyWeekday /\ Hour(t) = BusyHour /\ Minute(t) = BusyMinute
  THEN [status |-> "conflict", conflicting_time |-> t, conflict_duration |-> BusyDuration,
        next_available |-> _generate_candidates(t - SearchStep)[1],
        candidates |-> _generate_candidates(t - SearchStep)]
  ELSE [status |-> "available", conflicting_time |-> NoTime, conflict_duration |-> 0,
        next_available |-> t, candidates |-> <<>>]

check_slot_availability(t, duration_min) ==
  IF Weekday(t) = BusyWeekday /\ Hour(t) = BusyHour /\ Minute(t) = BusyMinute
  THEN [status |-> "conflict", conflicting_time |-> t, conflict_duration |-> BusyDuration,
        next_available |-> _generate_candidates(t)[1],
        candidates |-> _generate_candidates(t)]
  ELSE [status |-> "available", conflicting_time |-> NoTime, conflict_duration |-> 0,
        next_available |-> t, candidates |-> <<>>]

\* MockCalendarTool.check_conflicts: the blocked slots the requested interval
\* overlaps, by minutes of the day; the workflow does not call it
check_conflicts(t, duration_min) ==
  LET req_start_minutes  == Hour(t) * 60 + Minute(t)
      req_end_minutes    == req_start_minutes + duration_min
      slot_start_minutes == BusyHour * 60 + BusyMinute
      slot_end_minutes   == slot_start_minutes + BusyDuration
  IN  IF /\ Weekday(t) = BusyWeekday
         /\ req_start_minutes < slot_end_minutes
         /\ req_end_minutes > slot_start_minutes
      THEN <<[start |-> DateOf(t) + slot_start_minutes,
              end |-> DateOf(t) + slot_end_minutes]>>
      ELSE <<>>

\* ------------------------------------------------------- retry (lib/retry)
\* the k-th invocation of a backend fails
BackendFails(mode, k) == mode = "down" \/ (mode = "flaky" /\ k = 1)

\* retry(max_attempts, exceptions): call again after a listed exception, at
\* most max_attempts calls in all; None when the last attempt failed too.
\* calls is the number of invocations made before; the result gives the
\* number made after, and whether a call succeeded.
RECURSIVE retry(_, _, _)
retry(mode, calls, attempts_left) ==
  IF attempts_left = 0 THEN [ok |-> FALSE, calls |-> calls]
  ELSE IF ~BackendFails(mode, calls + 1) THEN [ok |-> TRUE, calls |-> calls + 1]
  ELSE retry(mode, calls + 1, attempts_left - 1)

_get_forecast_with_retry(t, calls) ==
  LET r == retry(weatherMode, calls, MaxAttempts)
  IN  [ok |-> r.ok, calls |-> r.calls,
       weather |-> IF r.ok THEN get_forecast(t) ELSE NoWeather]

_check_availability_with_retry(t, duration_min, calls) ==
  LET r == retry(calendarMode, calls, MaxAttempts)
  IN  [ok |-> r.ok, calls |-> r.calls,
       result |-> IF r.ok THEN check_slot_availability(t, duration_min)
                  ELSE NoAvailability]


\* ---------------------------------------------------------- models/state.py
\* The state a caller passes to invoke: the request text and, on a follow-up
\* turn, the clarification_count of the previous result.  Keys the caller
\* does not set are absent: "" / {} / <<>> / NoTime read like None, and
\* "absent" marks the two keys whose absence the code tests or defaults.
InitialState(count) ==
  [city |-> "", dt |-> NoTime, duration_min |-> 0, attendees |-> <<>>,
   weather |-> NoWeather, rain_risk |-> "absent",
   conflicts |-> <<>>, proposed |-> <<>>, no_conflicts |-> "absent",
   suggested_time |-> NoTime,
   error |-> "", clarification_needed |-> {}, clarification_count |-> count,
   retry_count |-> 0,
   event_summary |-> NoSummary, policy_decision |-> NoDecision,
   degradation_notes |-> <<>>]

\* ------------------------------------------------------------ graph/nodes.py
GenericClarification == {"more_details"}

\* intent_and_slots_node; tick is the time that passes between the parser
\* building the Slot and validate_slot reading the clock.  raised: an
\* exception other than ParseError / validator.ValidationError left the node.
intent_and_slots_node(s, req, clock, tick) ==
  LET p == parse_natural_language(req, clock)
      v == IF p.kind = "ok" THEN validate_slot(p.slot, clock + tick) ELSE ""
  IN  IF p.kind = "SlotError"
      THEN [raised |-> TRUE, kind |-> "SlotError", st |-> s]
      ELSE IF p.kind = "ParseError"
      THEN [raised |-> FALSE, kind |-> "ParseError",
            st |-> [s EXCEPT !.error = p.msg,
                             !.clarification_needed = GenericClarification]]
      ELSE IF v # ""
      THEN [raised |-> FALSE, kind |-> "ValidationError",
            st |-> [s EXCEPT !.error = v,
                             !.clarification_needed = GenericClarification]]
      ELSE [raised |-> FALSE, kind |-> "ok",
            st |-> [s EXCEPT !.city = p.slot.city, !.dt = p.slot.datetime,
                             !.duration_min = p.slot.duration,
                             !.attendees = p.slot.attendees,
                             !.error = "", !.clarification_needed = {}]]

\* check_weather_node discarding the forecast it obtained
check_weather_node_DropsForecast(s, wcalls) ==
  IF s.error # "" THEN [st |-> s, wcalls |-> wcalls]
  ELSE
    LET r == _get_forecast_with_retry(s.dt, wcalls)
    IN  IF ~r.ok
        THEN [st |-> [s EXCEPT !.error = "svc:weather"], wcalls |-> r.calls]
        ELSE [st |-> s, wcalls |-> r.calls]

check_weather_node(s, wcalls) ==
  IF s.error # "" THEN [st |-> s, wcalls |-> wcalls]
  ELSE
    LET r == _get_forecast_with_retry(s.dt, wcalls)
    IN  IF ~r.ok
        THEN [st |-> [s EXCEPT !.error = "svc:weather"], wcalls |-> r.calls]
        ELSE [st |-> [s EXCEPT !.weather = r.weather,
                               !.rain_risk = r.weather.risk_category],
              wcalls |-> r.calls]

\* _find_weather_aware_slot: the loop from current up to end_search
RECURSIVE _find_weather_aware_slot(_, _, _, _, _)
\* _find_weather_aware_slot accepting its first step whatever the forecast
_find_weather_aware_slot_IgnoresFirstForecast(current, end_search, duration_min, wcalls, ccalls) ==
  IF current >= end_search
  THEN [found |-> FALSE, time |-> NoTime, wcalls |-> wcalls, ccalls |-> ccalls]
  ELSE
    LET w == _get_forecast_with_retry(current, wcalls)
        c == _check_availability_with_retry(current, duration_min, ccalls)
        has_no_conflicts == c.ok /\ c.result.status = "available"
    IN  IF has_no_conflicts
        THEN [found |-> TRUE, time |-> current, wcalls |-> w.calls, ccalls |-> c.calls]
        ELSE _find_weather_aware_slot(current + SearchStep, end_search, duration_min,
                                      w.calls, c.calls)

_find_weather_aware_slot(current, end_search, duration_min, wcalls, ccalls) ==
  IF current >= end_search
  THEN [found |-> FALSE, time |-> NoTime, wcalls |-> wcalls, ccalls |-> ccalls]
  ELSE
    LET w == _get_forecast_with_retry(current, wcalls)
        c == _check_availability_with_retry(current, duration_min, ccalls)
        has_good_weather == w.ok /\ w.weather.risk_category # "high"
        has_no_conflicts == c.ok /\ c.result.status = "available"
    IN  IF has_good_weather /\ has_no_conflicts
        THEN [found |-> TRUE, time |-> current, wcalls |-> w.calls, ccalls |-> c.calls]
        ELSE _find_weather_aware_slot(current + SearchStep, end_search, duration_min,
                                      w.calls, c.calls)

\* find_free_slot_node moving the start time to the alternative it found
find_free_slot_node_MovesStart(s, wcalls, ccalls) ==
  IF s.error # "" THEN [st |-> s, wcalls |-> wcalls, ccalls |-> ccalls]
  ELSE
    LET r == _check_availability_with_retry(s.dt, s.duration_min, ccalls)
    IN  IF ~r.ok
        THEN [st |-> [s EXCEPT !.error = "svc:calendar"],
              wcalls |-> wcalls, ccalls |-> r.calls]
        ELSE
          LET s1 == IF r.result.status = "conflict"
                    THEN [s EXCEPT !.no_conflicts = "false",
                                   !.conflicts = <<[conflicting_time |-> r.result.conflicting_time,
                                                    duration |-> r.result.conflict_duration]>>,
                                   !.proposed = r.result.candidates]
                    ELSE [s EXCEPT !.no_conflicts = "true", !.conflicts = <<>>]
              rain_risk == IF s1.rain_risk = "absent" THEN "low" ELSE s1.rain_risk
              needs_alternative == rain_risk = "high" \/ s1.no_conflicts = "false"
              f == _find_weather_aware_slot(s1.dt, s1.dt + SearchHours * 60,
                                            s1.duration_min, wcalls, r.calls)
          IN  IF ~needs_alternative
              THEN [st |-> s1, wcalls |-> wcalls, ccalls |-> r.calls]
              ELSE [st |-> IF f.found
                         THEN [s1 EXCEPT !.suggested_time = f.time, !.dt = f.time]
                         ELSE s1,
                    wcalls |-> f.wcalls, ccalls |-> f.ccalls]

find_free_slot_node(s, wcalls, ccalls) ==
  IF s.error # "" THEN [st |-> s, wcalls |-> wcalls, ccalls |-> ccalls]
  ELSE
    LET r == _check_availability_with_retry(s.dt, s.duration_min, ccalls)
    IN  IF ~r.ok
        THEN [st |-> [s EXCEPT !.error = "svc:calendar"],
              wcalls |-> wcalls, ccalls |-> r.calls]
        ELSE
          LET s1 == IF r.result.status = "conflict"
                    THEN [s EXCEPT !.no_conflicts = "false",
                                   !.conflicts = <<[conflicting_time |-> r.result.conflicting_time,
                                                    duration |-> r.result.conflict_duration]>>,
                                   !.proposed = r.result.candidates]
                    ELSE [s EXCEPT !.no_conflicts = "true", !.conflicts = <<>>]
              rain_risk == IF s1.rain_risk = "absent" THEN "low" ELSE s1.rain_risk
              needs_alternative == rain_risk = "high" \/ s1.no_conflicts = "false"
              f == _find_weather_aware_slot(s1.dt, s1.dt + SearchHours * 60,
                                            s1.duration_min, wcalls, r.calls)
          IN  IF ~needs_alternative
              THEN [st |-> s1, wcalls |-> wcalls, ccalls |-> r.calls]
              ELSE [st |-> IF f.found THEN [s1 EXCEPT !.suggested_time = f.time] ELSE s1,
                    wcalls |-> f.wcalls, ccalls |-> f.ccalls]

\* confirm_or_adjust_node testing the rain risk before the conflicts
confirm_or_adjust_node_WeatherFirst(s) ==
  IF s.error # "" THEN s
  ELSE
    LET has_conflicts == s.no_conflicts = "false"
        rain_risk == IF s.rain_risk = "absent" THEN "low" ELSE s.rain_risk
        decision ==
          IF rain_risk = "high"
          THEN PolicyDecision("adjust_time", "high_rain", <<"consider_rescheduling">>)
          ELSE IF rain_risk = "moderate"
          THEN PolicyDecision("adjust_place", "moderate_rain", <<"indoor_or_umbrella">>)
          ELSE IF has_conflicts
          THEN PolicyDecision("propose_candidates", "conflict_detected", <<"select_alternative">>)
          ELSE PolicyDecision("create", "all_clear", <<>>)
    IN  [s EXCEPT !.policy_decision = decision]

\* the words of interest in the reason texts of the policy decisions
ReasonWords(reason) ==
  CASE reason = "conflict_detected" -> {"calendar", "conflict"}
    [] reason = "high_rain"         -> {"rain"}
    [] reason = "moderate_rain"     -> {"rain"}
    [] reason = "all_clear"         -> {"conflict", "weather"}
    [] OTHER                        -> {}

confirm_or_adjust_node(s) ==
  IF s.error # "" THEN s
  ELSE
    LET has_conflicts == s.no_conflicts = "false"
        rain_risk == IF s.rain_risk = "absent" THEN "low" ELSE s.rain_risk
        decision ==
          IF has_conflicts
          THEN PolicyDecision("propose_candidates", "conflict_detected", <<"select_alternative">>)
          ELSE IF rain_risk = "high"
          THEN PolicyDecision("adjust_time", "high_rain", <<"consider_rescheduling">>)
          ELSE IF rain_risk = "moderate"
          THEN PolicyDecision("adjust_place", "moderate_rain", <<"indoor_or_umbrella">>)
          ELSE PolicyDecision("create", "all_clear", <<>>)
    IN  [s EXCEPT !.policy_decision = decision]


\* create_event_node leaving the degradation notes out of the notes it builds
combined_notes_WithoutDegradation(policy_notes, degradation_notes) == policy_notes

\* notes of create_event_node on the CREATE branch: the decision's notes
\* followed by the degradation notes
combined_notes(policy_notes, degradation_notes) == policy_notes \o degradation_notes

\* create_event_node; fails: create_event raises CalendarServiceError;
\* new_id: the identifier create_event generates.  called: create_event was
\* invoked.
\* create_event_node creating the event for ADJUST_TIME as well
create_event_node_CreatesOnAdjust(s, fails, new_id) ==
  IF s.clarification_needed # {} THEN [st |-> s, called |-> FALSE]
  ELSE IF s.error # "" /\ s.degradation_notes = <<>>
  THEN [st |-> [s EXCEPT !.event_summary =
                   EventSummary("error", "Failed to schedule event", s.error,
                                <<"resolve_and_retry">>, <<>>, 0)],
        called |-> FALSE]
  ELSE
    LET s1 == IF s.degradation_notes # <<>> THEN [s EXCEPT !.error = ""] ELSE s
        degraded == s1.policy_decision.action = "" /\ s1.degradation_notes # <<>>
        pd == IF degraded THEN PolicyDecision("create", "degraded_create", <<>>)
              ELSE s1.policy_decision
        notes == combined_notes(pd.notes, s1.degradation_notes)
    IN  IF pd.action \in {"create", "adjust_time"}
        THEN [st |-> [s1 EXCEPT !.event_summary =
                        IF fails
                        THEN EventSummary("error", "Failed to create event",
                                          "calendar_unavailable",
                                          <<"calendar_service_error">>, <<>>, 0)
                        ELSE EventSummary("confirmed", "Meeting scheduled", pd.reason,
                                          notes, <<>>, new_id)],
              called |-> TRUE]
        ELSE IF pd.action = "propose_candidates"
        THEN [st |-> [s1 EXCEPT !.event_summary =
                        EventSummary("conflict", "Calendar conflict detected", pd.reason,
                                     pd.notes, s1.proposed, 0)],
              called |-> FALSE]
        ELSE IF pd.action \in {"adjust_time", "adjust_place"}
        THEN [st |-> [s1 EXCEPT !.event_summary =
                        EventSummary("adjusted", "Event requires adjustment", pd.reason,
                                     pd.notes, <<>>, 0)],
              called |-> FALSE]
        ELSE [st |-> s1, called |-> FALSE]

create_event_node(s, fails, new_id) ==
  IF s.clarification_needed # {} THEN [st |-> s, called |-> FALSE]
  ELSE IF s.error # "" /\ s.degradation_notes = <<>>
  THEN [st |-> [s EXCEPT !.event_summary =
                   EventSummary("error", "Failed to schedule event", s.error,
                                <<"resolve_and_retry">>, <<>>, 0)],
        called |-> FALSE]
  ELSE
    LET s1 == IF s.degradation_notes # <<>> THEN [s EXCEPT !.error = ""] ELSE s
        degraded == s1.policy_decision.action = "" /\ s1.degradation_notes # <<>>
        pd == IF degraded THEN PolicyDecision("create", "degraded_create", <<>>)
              ELSE s1.policy_decision
        notes == combined_notes(pd.notes, s1.degradation_notes)
    IN  IF pd.action = "create"
        THEN [st |-> [s1 EXCEPT !.event_summary =
                        IF fails
                        THEN EventSummary("error", "Failed to create event",
                                          "calendar_unavailable",
                                          <<"calendar_service_error">>, <<>>, 0)
                        ELSE EventSummary("confirmed", "Meeting scheduled", pd.reason,
                                          notes, <<>>, new_id)],
              called |-> TRUE]
        ELSE IF pd.action = "propose_candidates"
        THEN [st |-> [s1 EXCEPT !.event_summary =
                        EventSummary("conflict", "Calendar conflict detected", pd.reason,
                                     pd.notes, s1.proposed, 0)],
              called |-> FALSE]
        ELSE IF pd.action \in {"adjust_time", "adjust_place"}
        THEN [st |-> [s1 EXCEPT !.event_summary =
                        EventSummary("adjusted", "Event requires adjustment", pd.reason,
                                     pd.notes, <<>>, 0)],
              called |-> FALSE]
        ELSE [st |-> s1, called |-> FALSE]

\* error_recovery_node, case 1, first clarification: the categories named
clarification_parts(error_msg) ==
  LET w == Words(error_msg)
      parts == (IF "time" \in w \/ "datetime" \in w THEN {"time"} ELSE {})
          \cup (IF "location" \in w \/ "city" \in w THEN {"location"} ELSE {})
          \cup (IF "duration" \in w THEN {"duration"} ELSE {})
  IN  IF parts = {} THEN {"time", "location", "duration_optional"} ELSE parts

\* the first clarification leaving clarification_count as it was
FirstClarification_NoCount(s) ==
  [s EXCEPT !.clarification_needed = clarification_parts(s.error),
            !.error = ""]

FirstClarification(s) ==
  [s EXCEPT !.clarification_needed = clarification_parts(s.error),
            !.clarification_count = 1,
            !.error = ""]

\* case 1, second failure
SecondFailure(s) ==
  [s EXCEPT !.event_summary =
              EventSummary("error", "Unable to parse scheduling request",
                           "missing_after_clarification", <<"format_example">>, <<>>, 0),
            !.clarification_needed = {},
            !.error = "format_example"]

\* case 2, the three service branches
DegradeWeather(s) ==
  [s EXCEPT !.error = "", !.weather = NoWeather,
            !.degradation_notes = Append(s.degradation_notes, "weather_manual_check")]

\* the calendar branch assigning a fresh note list instead of appending
DegradeCalendar_Overwrite(s) ==
  [s EXCEPT !.error = "", !.no_conflicts = "true",
            !.degradation_notes = <<"calendar_manual_check">>]

DegradeCalendar(s) ==
  [s EXCEPT !.error = "", !.no_conflicts = "true",
            !.degradation_notes = Append(s.degradation_notes, "calendar_manual_check")]

DegradeGeneric(s) ==
  [s EXCEPT !.error = "",
            !.degradation_notes = Append(s.degradation_notes, "service_error")]

\* case 3
RetryExhausted(s) ==
  [s EXCEPT !.event_summary =
              EventSummary("error", "Failed to schedule event after multiple attempts",
                           IF s.error = "" THEN "unknown_error" ELSE s.error,
                           <<"max_retries">>, <<>>, 0),
            !.error = ""]

IsClarificationCase(s) ==
  s.clarification_needed # {} \/ (s.error # "" /\ "service" \notin Words(s.error))

IsServiceCase(s) ==
  s.error # "" /\ ("service" \in Words(s.error) \/ "error" \in Words(s.error))

\* error_recovery_node testing the retry ceiling before the service branches
RecoveryBranch_CeilingFirst(s) ==
  IF IsClarificationCase(s)
  THEN (IF s.clarification_count = 0 THEN "first_clarification" ELSE "second_failure")
  ELSE IF s.retry_count >= RetryCeiling THEN "exhausted"
  ELSE IF IsServiceCase(s)
  THEN (IF "weather" \in Words(s.error) THEN "weather"
        ELSE IF "calendar" \in Words(s.error) THEN "calendar" ELSE "generic")
  ELSE "other"

\* the branch error_recovery_node takes once retry_count has been incremented
RecoveryBranch(s) ==
  IF IsClarificationCase(s)
  THEN (IF s.clarification_count = 0 THEN "first_clarification" ELSE "second_failure")
  ELSE IF IsServiceCase(s)
  THEN (IF "weather" \in Words(s.error) THEN "weather"
        ELSE IF "calendar" \in Words(s.error) THEN "calendar" ELSE "generic")
  ELSE IF s.retry_count >= RetryCeiling THEN "exhausted"
  ELSE "other"

error_recovery_node(s) ==
  LET s1 == [s EXCEPT !.retry_count = s.retry_count + 1]
      b  == RecoveryBranch(s1)
  IN  CASE b = "first_clarification" -> FirstClarification(s1)
        [] b = "second_failure"      -> SecondFailure(s1)
        [] b = "weather"             -> DegradeWeather(s1)
        [] b = "calendar"            -> DegradeCalendar(s1)
        [] b = "generic"             -> DegradeGeneric(s1)
        [] b = "exhausted"           -> RetryExhausted(s1)
        [] OTHER                     -> s1

\* ------------------------------------------------------------ graph/edges.py
conditional_edge_from_intent(s) ==
  IF s.error # "" \/ s.clarification_needed # {} THEN "error_recovery" ELSE "check_weather"

conditional_edge_from_weather(s) ==
  IF s.error # "" /\ "weather" \in Words(s.error) THEN "error_recovery" ELSE "find_free_slot"

conditional_edge_from_conflict(s) ==
  IF s.error # "" /\ "calendar" \in Words(s.error) THEN "error_recovery"
  ELSE "confirm_or_adjust"

conditional_edge_from_policy(s) == "create_event"

conditional_edge_from_error(s) ==
  IF s.event_summary.set THEN "create_event"
  ELSE IF s.error = "" /\ s.degradation_notes # <<>>
  THEN (IF s.no_conflicts = "absent" THEN "find_free_slot" ELSE "create_event")
  ELSE IF s.error = "" /\ s.clarification_needed = {}
  THEN (IF s.city # "" /\ s.dt # NoTime THEN "check_weather" ELSE "create_event")
  ELSE "create_event"

\* no library function has been called directly
NoUnit == [fn |-> "", prob_rain |-> 0, slot |-> NoSlot, clock |-> NoTime,
           req |-> EmptyReq, done |-> FALSE, out |-> ""]

\* ----------------------------------------- adapters/primary/api/server.py
\* ScheduleResponse with its defaults: no result, no error, clarification
\* not flagged, no missing fields
ScheduleResponse(status, result, error) ==
  [http |-> 200, status |-> status, result |-> result, error |-> error,
   clarification_needed |-> FALSE, missing_fields |-> {}]

\* schedule_event: what the endpoint answers for the state graph.invoke
\* returned, or for the exception it raised
schedule_event(result_state, raised) ==
  IF raised
  THEN [http |-> 500, status |-> "", result |-> NoSummary, error |-> "",
        clarification_needed |-> FALSE, missing_fields |-> {}]
  ELSE IF result_state.event_summary.set
  THEN ScheduleResponse("success", result_state.event_summary, "")
  ELSE IF result_state.error # ""
  THEN ScheduleResponse("error", NoSummary, result_state.error)
  ELSE ScheduleResponse("error", NoSummary, "no_result_generated")

\* nodes.py:17-18: no oracle configured, no instance built
NoTool == "none"
ToolKinds == {"mock", "real"}
Instances == {1, 2}
NoTools == [weather |-> NoTool, calendar |-> NoTool]
Tools == <<_weather_tool, _calendar_tool, graphs, used>>
ToolsUnconfigured ==
  /\ _weather_tool = NoTool
  /\ _calendar_tool = NoTool
  /\ graphs = [i \in Instances |-> NoTools]
  /\ used = [i \in Instances |-> NoTools]

\* ---------------------------------------------------------- graph/builder.py
Init ==
  /\ request \in Requests
  /\ now \in NowChoices
  /\ entryCount \in 0..MaxEntryCount
  /\ weatherMode \in Modes
  /\ calendarMode \in Modes
  /\ createFails \in BOOLEAN
  /\ forecastTier \in {NoTier} \cup LLMTiers
  /\ forecastProb \in (IF forecastTier = NoTier THEN ForecastChoices ELSE {LLMProbRain})
  /\ turn = 1
  /\ clarificationRequests = 0
  /\ unit = NoUnit
  /\ ToolsUnconfigured
  /\ st = InitialState(entryCount)
  /\ pc = "intent_and_slots"
  /\ weatherCalls = 0
  /\ calendarCalls = 0
  /\ createCalls = 0
  /\ lastEventId = 0
  /\ path = <<>>
  /\ parseKind = ""
  /\ preFinal = InitialState(0)
  /\ again = [done |-> FALSE, summary |-> NoSummary, retry_count |-> 0,
              clarification_count |-> 0]

\* what no node of the workflow changes: the request, the clock, the
\* backends, and the caller's own bookkeeping
Env == <<request, now, weatherMode, calendarMode, createFails, forecastProb, forecastTier,
         entryCount, turn, clarificationRequests, unit,
         _weather_tool, _calendar_tool, graphs, used>>

\* the graph runtime runs the node pc names
Running(node) == pc = node /\ Len(path) < MaxSteps

ParseIntent ==
  /\ Running("intent_and_slots")
  /\ \E tick \in 0..MaxTick :
       LET r == intent_and_slots_node(st, request, now, tick)
       IN  /\ st' = r.st
           /\ parseKind' = r.kind
           /\ pc' = IF r.raised THEN "RAISED" ELSE conditional_edge_from_intent(r.st)
  /\ path' = Append(path, "intent_and_slots")
  /\ UNCHANGED <<Env, weatherCalls, calendarCalls, createCalls, lastEventId, preFinal, again>>

CheckWeather ==
  /\ Running("check_weather")
  /\ LET r == check_weather_node(st, weatherCalls)
     IN  /\ st' = r.st
         /\ weatherCalls' = r.wcalls
         /\ pc' = conditional_edge_from_weather(r.st)
  /\ path' = Append(path, "check_weather")
  /\ UNCHANGED <<Env, calendarCalls, createCalls, lastEventId, parseKind, preFinal, again>>

CheckAvailability ==
  /\ Running("find_free_slot")
  /\ LET r == find_free_slot_node(st, weatherCalls, calendarCalls)
     IN  /\ st' = r.st
         /\ weatherCalls' = r.wcalls
         /\ calendarCalls' = r.ccalls
         /\ pc' = conditional_edge_from_conflict(r.st)
  /\ path' = Append(path, "find_free_slot")
  /\ UNCHANGED <<Env, createCalls, lastEventId, parseKind, preFinal, again>>

DecidePolicy ==
  /\ Running("confirm_or_adjust")
  /\ st' = confirm_or_adjust_node(st)
  /\ pc' = conditional_edge_from_policy(st')
  /\ path' = Append(path, "confirm_or_adjust")
  /\ UNCHANGED <<Env, weatherCalls, calendarCalls, createCalls, lastEventId, parseKind,
                 preFinal, again>>

Recover ==
  /\ Running("error_recovery")
  /\ st' = error_recovery_node(st)
  /\ pc' = conditional_edge_from_error(st')
  /\ path' = Append(path, "error_recovery")
  /\ UNCHANGED <<Env, weatherCalls, calendarCalls, createCalls, lastEventId, parseKind,
                 preFinal, again>>

\* Finalize building its summary as if create_event had not raised
Finalize_FailureUnnoticed ==
  /\ Running("create_event")
  /\ LET r == create_event_node(st, FALSE, lastEventId + 1)
     IN  /\ st' = r.st
         /\ createCalls' = IF r.called THEN createCalls + 1 ELSE createCalls
         /\ lastEventId' = IF r.called /\ ~createFails THEN lastEventId + 1 ELSE lastEventId
  /\ preFinal' = st
  /\ pc' = "END"
  /\ path' = Append(path, "create_event")
  /\ UNCHANGED <<Env, weatherCalls, calendarCalls, parseKind, again>>

Finalize ==
  /\ Running("create_event")
  /\ LET r == create_event_node(st, createFails, lastEventId + 1)
     IN  /\ st' = r.st
         /\ createCalls' = IF r.called THEN createCalls + 1 ELSE createCalls
         /\ lastEventId' = IF r.called /\ ~createFails THEN lastEventId + 1 ELSE lastEventId
  /\ preFinal' = st
  /\ pc' = "END"
  /\ path' = Append(path, "create_event")
  /\ UNCHANGED <<Env, weatherCalls, calendarCalls, parseKind, again>>

Next ==
  \/ ParseIntent
  \/ CheckWeather
  \/ CheckAvailability
  \/ DecidePolicy
  \/ Recover
  \/ Finalize

Spec == Init /\ [][Next]_vars

\* A caller that invokes create_event_node a second time on the state the
\* workflow handed to it the first time
FinalizeAgain ==
  /\ pc = "END"
  /\ ~again.done
  /\ LET r == create_event_node(preFinal, createFails, lastEventId + 1)
     IN  /\ again' = [done |-> TRUE, summary |-> r.st.event_summary,
                       retry_count |-> r.st.retry_count,
                       clarification_count |-> r.st.clarification_count]
         /\ createCalls' = IF r.called THEN createCalls + 1 ELSE createCalls
         /\ lastEventId' = IF r.called /\ ~createFails THEN lastEventId + 1 ELSE lastEventId
  /\ UNCHANGED <<Env, st, pc, weatherCalls, calendarCalls, path, parseKind, preFinal>>

NextAgain ==
  \/ Next
  \/ FinalizeAgain

SpecAgain == Init /\ [][NextAgain]_vars

\* graph.invoke runs the node pc names until it reaches END: a stage that
\* can run does run
\* (checked for requests made today: empty, before now, in the rainy
\* window, at the busy slot, with and without a city; the sixteen-step
\* search for an alternative under a weather oracle that is down is left to
\* Spec)
LiveRequests ==
  {EmptyReq} \cup
  {Req(c, "today", 0, k, 0, "Alice") :
     c \in Cities, k \in {<<9, 0, "">>, <<15, 0, "">>}}
InitLive ==
  /\ Init
  /\ request \in LiveRequests
  /\ weatherMode = "down" => request.clock # <<15, 0, "">>
  /\ forecastTier = NoTier
  /\ forecastProb = NoProb
SpecLive == InitLive /\ [][Next]_vars /\ WF_vars(Next)

\* A request lifecycle: the caller starts with clarification_count 0 and,
\* after each result, invokes the graph again with a new text and the
\* clarification_count of that result (test_missing_slot.py:57-66).  The
\* graph and its tools are built anew for every invocation.
InitSession ==
  /\ Init
  /\ entryCount = 0
  /\ forecastProb = NoProb
  /\ forecastTier = NoTier

FollowUp ==
  /\ pc = "END"
  /\ turn < MaxTurns
  /\ request' \in Requests
  /\ entryCount' = st.clarification_count
  /\ st' = InitialState(st.clarification_count)
  /\ pc' = "intent_and_slots"
  /\ turn' = turn + 1
  /\ clarificationRequests' =
       clarificationRequests + (IF st.clarification_needed # {} THEN 1 ELSE 0)
  /\ weatherCalls' = 0
  /\ calendarCalls' = 0
  /\ createCalls' = 0
  /\ path' = <<>>
  /\ parseKind' = ""
  /\ preFinal' = InitialState(0)
  /\ UNCHANGED <<now, weatherMode, calendarMode, createFails, forecastProb, forecastTier,
                 lastEventId, again, unit, Tools>>

NextSession ==
  \/ Next
  \/ FollowUp

SpecSession == InitSession /\ [][NextSession]_vars

\* Direct calls of the library functions, outside the workflow: the risk
\* mapping for every probability, and validate_slot for slots around the
\* limits with the clock read at the time of the call.
UnitCities == {"", " ", "Taipei"}
UnitDurations == {MinDuration - 1, MinDuration, DefaultDuration, MaxDuration, MaxDuration + 1}
UnitSlots ==
  {[city |-> c, datetime |-> FridayTen + k, duration |-> d, attendees |-> <<"Alice">>] :
     c \in UnitCities, k \in (0 - MaxSkew)..MaxSkew, d \in UnitDurations}
\* texts for the parser: with and without a city, a date word, a clock
\* token, and with an attendee whose name contains a keyword
UnitNames == {"Alice", "Sam"}
UnitRequests ==
  {EmptyReq} \cup
  {Req(c, d[1], d[2], k, 0, m) :
     c \in Cities, d \in Days, k \in {NoClock, <<2, 0, "pm">>}, m \in UnitNames}
\* ------------------------------------------------- tools/calendar_tools.py
\* MockCalendarTool.find_free_slot: the first 30-minute step from
\* start_search, within the window, at which check_conflicts finds nothing.
\* It returns a datetime, or None: kind tells which.
RECURSIVE MockCalendar_find_free_slot(_, _, _)
MockCalendar_find_free_slot(current, end_search, duration_min) ==
  IF current >= end_search THEN [kind |-> "None", value |-> NoTime]
  ELSE IF check_conflicts(current, duration_min) = <<>>
  THEN [kind |-> "datetime", value |-> current]
  ELSE MockCalendar_find_free_slot(current + SearchStep, end_search, duration_min)

\* result["status"] is defined for a dict only; on a datetime or on None the
\* subscript raises TypeError
IsSubscriptable(result) == result.kind = "dict"

\* find_free_slot_tool: it reads the result as a dict with the keys status
\* and next_available; any exception is caught and reported as failure
find_free_slot_tool(dt, duration_min) ==
  LET result == MockCalendar_find_free_slot(dt, dt + SearchHours * 60, duration_min)
  IN  IF ~IsSubscriptable(result)
      THEN [success |-> FALSE, free_slot |-> NoTime, alternatives |-> <<>>,
            error |-> "TypeError"]
      ELSE IF result.value.status # "available" \/ result.value.next_available = NoTime
      THEN [success |-> FALSE, free_slot |-> NoTime, alternatives |-> <<>>,
            error |-> "no_free_slot"]
      ELSE LET free_slot_dt == result.value.next_available
           IN  [success |-> TRUE, free_slot |-> free_slot_dt,
                alternatives |-> IF free_slot_dt # dt
                                 THEN <<free_slot_dt + 30, free_slot_dt + 60>>
                                 ELSE <<>>,
                error |-> ""]

\* preferred times around the busy slot, two durations
UnitToolSlots ==
  {[city |-> "", datetime |-> 4 * DayMinutes + h * 60 + m, duration |-> d,
    attendees |-> <<>>] : h \in {14, 15, 16}, m \in {0, 30, 45}, d \in {30, 60}}

\* every weekday as today, every weekday named, with and without "next week"
UnitTodays == {d * DayMinutes + 10 * 60 : d \in 0..6}
UnitDateTexts ==
  {Req("Taipei", dy, wd, <<2, 0, "pm">>, 0, "Alice") :
     dy \in {"weekday", "next week weekday"}, wd \in 0..6}
UnitCalls ==
  {[fn |-> f, prob_rain |-> p, slot |-> NoSlot, clock |-> NoTime, req |-> EmptyReq,
    done |-> FALSE, out |-> ""] :
     f \in {"categorize_risk", "categorize_rain_risk"}, p \in 0..MaxProb}
  \cup
  {[fn |-> "validate_slot", prob_rain |-> 0, slot |-> s, clock |-> FridayTen,
    req |-> EmptyReq, done |-> FALSE, out |-> ""] : s \in UnitSlots}
  \cup
  {[fn |-> "parse_natural_language", prob_rain |-> 0, slot |-> NoSlot, clock |-> FridayTen,
    req |-> r, done |-> FALSE, out |-> ""] : r \in UnitRequests}
  \cup
  {[fn |-> "_extract_date", prob_rain |-> 0, slot |-> NoSlot, clock |-> c,
    req |-> r, done |-> FALSE, out |-> ""] : c \in UnitTodays, r \in UnitDateTexts}
  \cup
  {[fn |-> "find_free_slot_tool", prob_rain |-> 0, slot |-> s, clock |-> FridayTen,
    req |-> EmptyReq, done |-> FALSE, out |-> ""] : s \in UnitToolSlots}

\* no workflow is running: the workflow variables at rest
IdleWorkflow ==
  /\ request = EmptyReq
  /\ now = FridayTen
  /\ entryCount = 0
  /\ weatherMode = "ok"
  /\ calendarMode = "ok"
  /\ createFails = FALSE
  /\ forecastTier = NoTier
  /\ forecastProb = NoProb
  /\ turn = 1
  /\ clarificationRequests = 0
  /\ st = InitialState(0)
  /\ pc = "START"
  /\ weatherCalls = 0
  /\ calendarCalls = 0
  /\ createCalls = 0
  /\ lastEventId = 0
  /\ path = <<>>
  /\ parseKind = ""
  /\ preFinal = InitialState(0)
  /\ again = [done |-> FALSE, summary |-> NoSummary, retry_count |-> 0,
              clarification_count |-> 0]

InitUnit ==
  /\ unit \in UnitCalls
  /\ ToolsUnconfigured
  /\ IdleWorkflow

Workflow == <<st, pc, request, now, weatherMode, calendarMode, createFails, forecastProb,
              forecastTier, weatherCalls, calendarCalls, createCalls, lastEventId, path,
              parseKind, entryCount, preFinal, again, turn, clarificationRequests>>

\* WeatherCondition built with a risk_category that is not an enum member
CallCategorizeRisk ==
  /\ unit.fn = "categorize_risk"
  /\ ~unit.done
  /\ unit' = [unit EXCEPT !.done = TRUE,
                          !.out = WeatherCondition(unit.prob_rain, NotAnEnum).risk_category]
  /\ UNCHANGED <<Workflow, Tools>>

CallCategorizeRainRisk ==
  /\ unit.fn = "categorize_rain_risk"
  /\ ~unit.done
  /\ unit' = [unit EXCEPT !.done = TRUE, !.out = categorize_rain_risk(unit.prob_rain)]
  /\ UNCHANGED <<Workflow, Tools>>

\* out is "" when validate_slot returns True, else the message it raises
CallValidateSlot ==
  /\ unit.fn = "validate_slot"
  /\ ~unit.done
  /\ unit' = [unit EXCEPT !.done = TRUE, !.out = validate_slot(unit.slot, unit.clock)]
  /\ UNCHANGED <<Workflow, Tools>>

\* out is the Slot returned or the error raised
CallParse ==
  /\ unit.fn = "parse_natural_language"
  /\ ~unit.done
  /\ unit' = [unit EXCEPT !.done = TRUE, !.out = parse_natural_language(unit.req, unit.clock)]
  /\ UNCHANGED <<Workflow, Tools>>

CallExtractDate ==
  /\ unit.fn = "_extract_date"
  /\ ~unit.done
  /\ unit' = [unit EXCEPT !.done = TRUE, !.out = _extract_date(unit.req, unit.clock)]
  /\ UNCHANGED <<Workflow, Tools>>

CallFindFreeSlotTool ==
  /\ unit.fn = "find_free_slot_tool"
  /\ ~unit.done
  /\ unit' = [unit EXCEPT !.done = TRUE,
                          !.out = find_free_slot_tool(unit.slot.datetime, unit.slot.duration)]
  /\ UNCHANGED <<Workflow, Tools>>

NextUnit ==
  \/ CallCategorizeRisk
  \/ CallCategorizeRainRisk
  \/ CallValidateSlot
  \/ CallParse
  \/ CallExtractDate
  \/ CallFindFreeSlotTool

SpecUnit == InitUnit /\ [][NextUnit]_vars

\* ------------------------------------------- two workflow instances, one process
\* configure_tools: the pair of module globals after the call
configure_tools(weather_tool, calendar_tool) ==
  [weather |-> weather_tool, calendar |-> calendar_tool]

InitTools ==
  /\ unit = NoUnit
  /\ ToolsUnconfigured
  /\ IdleWorkflow

\* build_graph for instance i: it creates the oracles MOCK_MODE selects,
\* hands them to configure_tools and compiles the graph over the node
\* functions
build_graph(i) ==
  /\ graphs[i] = NoTools
  /\ \E mock_mode \in BOOLEAN :
       LET kind == IF mock_mode THEN "mock" ELSE "real"
           g == configure_tools(kind, kind)
       IN  /\ _weather_tool' = g.weather
           /\ _calendar_tool' = g.calendar
           /\ graphs' = [graphs EXCEPT ![i] = [weather |-> kind, calendar |-> kind]]
  /\ UNCHANGED <<Workflow, unit, used>>

\* a weather stage of instance i: _get_forecast_with_retry calls the global
RunCheckWeather(i) ==
  /\ graphs[i] # NoTools
  /\ used' = [used EXCEPT ![i].weather = _weather_tool]
  /\ UNCHANGED <<Workflow, unit, _weather_tool, _calendar_tool, graphs>>

\* an availability or create stage of instance i: both call the global
RunCalendarStage(i) ==
  /\ graphs[i] # NoTools
  /\ used' = [used EXCEPT ![i].calendar = _calendar_tool]
  /\ UNCHANGED <<Workflow, unit, _weather_tool, _calendar_tool, graphs>>

NextTools ==
  \/ \E i \in Instances : build_graph(i)
  \/ \E i \in Instances : RunCheckWeather(i)
  \/ \E i \in Instances : RunCalendarStage(i)

SpecTools == InitTools /\ [][NextTools]_vars


\* ================================================================== claims
Stopped == pc \in {"END", "RAISED"}
Summary == st.event_summary
InNotes(note, summary) == \E i \in 1..Len(summary.notes) : summary.notes[i] = note
HasFormatExample(summary) ==
  summary.reason = "format_example" \/ InNotes("format_example", summary)
\* the stage that ran, or is about to run, after the i-th executed node
StageAfter(i) == IF i < Len(path) THEN path[i + 1] ELSE pc
\* the i-th executed node is Recover, entered from the given stage
RecoverAfter(i, stage) ==
  /\ i \in 2..Len(path)
  /\ path[i] = "error_recovery"
  /\ path[i - 1] = stage

\* C1: an invocation whose input fails parsing or validation ends, when the
\* caller's clarification_count is 0, as a clarification request (message
\* set, error cleared, count 1, no error summary) and, when the count is
\* already 1 or more, with an error summary carrying the full-format example
\* and no clarification message.
C1_OneShotClarification ==
  (Stopped /\ parseKind \in {"ParseError", "ValidationError", "SlotError"}) =>
    /\ entryCount = 0 =>
         /\ st.clarification_needed # {}
         /\ st.error = ""
         /\ st.clarification_count = 1
         /\ ~(Summary.set /\ Summary.status = "error")
    /\ entryCount >= 1 =>
         /\ Summary.set
         /\ Summary.status = "error"
         /\ HasFormatExample(Summary)
         /\ st.clarification_needed = {}

\* C2: every run that has stopped holds an EventSummary in its result state.
C2_SummaryOnEveryPath == Stopped => Summary.set

\* C3: a request that violates a slot invariant leaves ParseIntent as a
\* clarification-kind failure routed to Recover, and raises nothing.
C3_InvariantViolationClarifies ==
  (Len(path) = 1 /\ parseKind \in {"SlotError", "ValidationError"}) =>
    /\ pc = "error_recovery"
    /\ st.error # ""
    /\ st.clarification_needed # {}

\* C4: with a parseable request and a weather oracle that fails on every
\* call (create_event itself succeeding), the run ends confirmed or adjusted
\* with the manual-weather-check note and exactly two oracle invocations.
C4_WeatherDownDegrades ==
  (pc = "END" /\ parseKind = "ok" /\ weatherMode = "down" /\ ~createFails) =>
    /\ Summary.set
    /\ Summary.status \in {"confirmed", "adjusted"}
    /\ InNotes("weather_manual_check", Summary)
    /\ weatherCalls = 2

\* the availability check of the availability stage failed on both attempts
AvailabilityFailedTwice == calendarMode = "down" /\ calendarCalls > 0

\* C5 as stated: after the availability check failed on both attempts the
\* oracle was invoked exactly twice, the error is cleared, no conflict is
\* assumed and the run ends with a created event whose notes recommend a
\* manual conflict check.
C5_AsStated ==
  (pc = "END" /\ AvailabilityFailedTwice) =>
    /\ calendarCalls = 2
    /\ st.error = ""
    /\ st.no_conflicts = "true"
    /\ Summary.set
    /\ Summary.status = "confirmed"
    /\ Summary.event_id # 0
    /\ InNotes("calendar_manual_check", Summary)

\* C5 amended: as stated when create_event succeeds; when create_event fails
\* too, the run ends with an error summary and no event.
C5_CalendarDownDegrades ==
  (pc = "END" /\ AvailabilityFailedTwice) =>
    /\ calendarCalls = 2
    /\ st.error = ""
    /\ st.no_conflicts = "true"
    /\ Summary.set
    /\ ~createFails =>
         /\ Summary.status = "confirmed"
         /\ Summary.event_id # 0
         /\ InNotes("calendar_manual_check", Summary)
    /\ createFails =>
         /\ Summary.status = "error"
         /\ Summary.event_id = 0

C5_Witness ==
  /\ pc = "END"
  /\ AvailabilityFailedTwice
  /\ weatherMode = "ok"
  /\ st.rain_risk = "high"
  /\ Summary.status = "confirmed"
  /\ InNotes("calendar_manual_check", Summary)

BothDown ==
  /\ weatherMode = "down"
  /\ calendarMode = "down"
  /\ weatherCalls > 0
  /\ calendarCalls > 0

\* C6 as stated: when every weather call and every availability call fails,
\* Recover is entered twice and the run ends with a created event whose
\* notes hold both degradation notes.
C6_AsStated ==
  (pc = "END" /\ BothDown) =>
    /\ st.retry_count = 2
    /\ Summary.set
    /\ Summary.status = "confirmed"
    /\ Summary.event_id # 0
    /\ InNotes("weather_manual_check", Summary)
    /\ InNotes("calendar_manual_check", Summary)

\* C6 amended: as stated when create_event succeeds; when create_event fails
\* too, Recover was still entered twice and the run ends with an error
\* summary and no event.
C6_BothDownDegrade ==
  (pc = "END" /\ BothDown) =>
    /\ st.retry_count = 2
    /\ Summary.set
    /\ ~createFails =>
         /\ Summary.status = "confirmed"
         /\ Summary.event_id # 0
         /\ InNotes("weather_manual_check", Summary)
         /\ InNotes("calendar_manual_check", Summary)
    /\ createFails =>
         /\ Summary.status = "error"
         /\ Summary.event_id = 0

C6_Witness ==
  /\ pc = "END"
  /\ BothDown
  /\ st.retry_count = 2
  /\ Summary.status = "confirmed"
  /\ Summary.notes = <<"weather_manual_check", "calendar_manual_check">>

\* C7: after Recover handles a service failure the next stage is the one
\* following the failed stage: CheckAvailability after a weather failure,
\* DecidePolicy after a calendar failure; ParseIntent runs only first.
C7_ResumeAtNextStage ==
  \A i \in 2..Len(path) :
    /\ RecoverAfter(i, "check_weather") => StageAfter(i) = "find_free_slot"
    /\ RecoverAfter(i, "find_free_slot") => StageAfter(i) = "confirm_or_adjust"
    /\ path[i] # "intent_and_slots"

\* Recover has just handled a service failure with the retry counter at the ceiling
ServiceRecoveryAtCeiling ==
  /\ Len(path) >= 2
  /\ \/ RecoverAfter(Len(path), "check_weather")
     \/ RecoverAfter(Len(path), "find_free_slot")
  /\ st.retry_count >= RetryCeiling

\* some Recover entry of the run handled a service failure at the ceiling
ServiceRecoveryReachedCeiling ==
  /\ st.retry_count >= RetryCeiling
  /\ \E i \in 2..Len(path) :
       RecoverAfter(i, "check_weather") \/ RecoverAfter(i, "find_free_slot")

\* C8 as stated: a run in which Recover handled a service failure with the
\* retry counter at 2 ends with an error summary.
C8_AsStated ==
  (pc = "END" /\ ServiceRecoveryReachedCeiling) =>
    (Summary.set /\ Summary.status = "error")

\* C8 amended: Recover degrades a service failure also when the retry
\* counter has reached 2: it writes no summary, clears the error, holds one
\* degradation note per entry and hands over to Finalize; such a run ends
\* with an error summary only when create_event fails.
C8_CeilingDoesNotStopDegradation ==
  /\ ServiceRecoveryAtCeiling =>
       /\ ~Summary.set
       /\ st.error = ""
       /\ Len(st.degradation_notes) = st.retry_count
       /\ pc = "create_event"
  /\ (pc = "END" /\ ServiceRecoveryReachedCeiling) =>
       /\ Summary.set
       /\ Summary.status = "error" <=> createFails

C8_Witness ==
  /\ ServiceRecoveryAtCeiling
  /\ st.retry_count = RetryCeiling
  /\ pc = "create_event"
  /\ st.degradation_notes = <<"weather_manual_check", "calendar_manual_check">>

\* C9: every degradation note the state holds at Finalize appears in the
\* notes of the summary, whether it is confirmed, adjusted or conflict.
C9_DegradationNotesFolded ==
  (pc = "END" /\ Summary.set /\ Summary.status \in {"confirmed", "adjusted", "conflict"}) =>
    \A i \in 1..Len(st.degradation_notes) : InNotes(st.degradation_notes[i], Summary)

\* C10: a second Finalize on the same state yields the same summary as the
\* first and changes no counter.
C10_FinalizeIdempotent ==
  again.done =>
    /\ again.summary = Summary
    /\ again.retry_count = preFinal.retry_count
    /\ again.clarification_count = preFinal.clarification_count

\* invocations of the lifecycle, the current one included, that ended with
\* a clarification request
ClarificationsSoFar ==
  clarificationRequests + (IF pc = "END" /\ st.clarification_needed # {} THEN 1 ELSE 0)

\* a follow-up to a clarification request whose text parses and validates
SuccessfulFollowUp ==
  /\ turn >= 2
  /\ entryCount = 1
  /\ parseKind = "ok"
  /\ pc = "END"

\* C11 as stated: over a lifecycle in which the caller copies
\* clarification_count from result to request, the count never exceeds 1, at
\* most one invocation ends with a clarification request, and a successful
\* follow-up keeps the count at 1 and ends confirmed or adjusted.
C11_AsStated ==
  /\ st.clarification_count <= 1
  /\ ClarificationsSoFar <= 1
  /\ SuccessfulFollowUp =>
       /\ st.clarification_count = 1
       /\ Summary.set
       /\ Summary.status \in {"confirmed", "adjusted"}

\* C11 amended: the count never exceeds 1 and at most one invocation ends
\* with a clarification request; a successful follow-up keeps the count at 1
\* and ends confirmed, adjusted or, at the busy slot, conflict, and with an
\* error summary only when create_event fails.
C11_OneClarificationPerLifecycle ==
  /\ st.clarification_count <= 1
  /\ ClarificationsSoFar <= 1
  /\ SuccessfulFollowUp =>
       /\ st.clarification_count = 1
       /\ Summary.set
       /\ \/ Summary.status \in {"confirmed", "adjusted", "conflict"}
          \/ Summary.status = "error" /\ createFails

C11_Witness ==
  /\ SuccessfulFollowUp
  /\ clarificationRequests = 1
  /\ st.clarification_count = 1
  /\ Summary.status = "conflict"
  /\ Len(Summary.alternatives) = 3

\* DecidePolicy has just run
JustDecided == Len(path) >= 1 /\ path[Len(path)] = "confirm_or_adjust"
\* the inputs of the decision: whether the availability stage found a
\* conflict, and the tier of the weather assessment (LOW when there is none)
HasConflict == st.no_conflicts = "false"
RiskTier == IF st.weather.set THEN st.weather.risk_category ELSE "low"

\* C12: the action DecidePolicy records is PROPOSE_CANDIDATES whenever there
\* is a conflict, whatever the tier; otherwise ADJUST_TIME iff the tier is
\* HIGH; otherwise ADJUST_PLACE iff it is MODERATE; otherwise CREATE.
C12_PolicyPriority ==
  JustDecided =>
    /\ st.policy_decision.set
    /\ st.policy_decision.action =
         (IF HasConflict THEN "propose_candidates"
          ELSE IF RiskTier = "high" THEN "adjust_time"
          ELSE IF RiskTier = "moderate" THEN "adjust_place"
          ELSE "create")

C12_Witness ==
  /\ JustDecided
  /\ HasConflict
  /\ st.weather.set
  /\ RiskTier = "high"
  /\ st.policy_decision.action = "propose_candidates"

\* Finalize has run on a state that holds a policy decision
FinalizedDecision == pc = "END" /\ st.policy_decision.set
Action == st.policy_decision.action

\* C13 as stated: Finalize turns CREATE into confirmed with an event_id,
\* PROPOSE_CANDIDATES into conflict with the availability oracle's
\* candidates (at most 3) as alternatives, ADJUST_TIME and ADJUST_PLACE into
\* adjusted; only a confirmed summary has an event_id.
C13_AsStated ==
  /\ FinalizedDecision =>
       /\ Summary.set
       /\ Action = "create" => Summary.status = "confirmed" /\ Summary.event_id # 0
       /\ Action = "propose_candidates" =>
            /\ Summary.status = "conflict"
            /\ Summary.alternatives =
                 check_slot_availability(st.dt, st.duration_min).candidates
            /\ Len(Summary.alternatives) <= 3
       /\ Action \in {"adjust_time", "adjust_place"} => Summary.status = "adjusted"
  /\ (pc = "END" /\ Summary.set /\ Summary.event_id # 0) => Summary.status = "confirmed"

\* C13 amended: as stated, except that CREATE yields confirmed with an
\* event_id when create_event succeeds and an error summary without
\* event_id when create_event fails.
C13_ActionToStatus ==
  /\ FinalizedDecision =>
       /\ Summary.set
       /\ (Action = "create" /\ ~createFails) =>
            Summary.status = "confirmed" /\ Summary.event_id # 0
       /\ (Action = "create" /\ createFails) =>
            Summary.status = "error" /\ Summary.event_id = 0
       /\ Action = "propose_candidates" =>
            /\ Summary.status = "conflict"
            /\ Summary.alternatives =
                 check_slot_availability(st.dt, st.duration_min).candidates
            /\ Len(Summary.alternatives) <= 3
       /\ Action \in {"adjust_time", "adjust_place"} => Summary.status = "adjusted"
  /\ (pc = "END" /\ Summary.set /\ Summary.event_id # 0) => Summary.status = "confirmed"

C13_Witness ==
  /\ FinalizedDecision
  /\ Action = "propose_candidates"
  /\ Summary.status = "conflict"
  /\ Summary.alternatives = <<st.dt + 30, st.dt + 60, st.dt + 120>>
  /\ Summary.event_id = 0

\* the reference oracles of build_graph, none of them failing
ReferenceOracles ==
  /\ forecastProb = NoProb
  /\ forecastTier = NoTier
  /\ weatherMode = "ok"
  /\ calendarMode = "ok"
  /\ ~createFails
AtBusySlot(t) == Weekday(t) = BusyWeekday /\ Hour(t) = BusyHour /\ Minute(t) = BusyMinute
InRainyWindow(t) ==
  Weekday(t) = RainyWeekday /\ RainyStartHour <= Hour(t) /\ Hour(t) < RainyEndHour

JustCheckedAvailability ==
  /\ Len(path) >= 1
  /\ path[Len(path)] = "find_free_slot"
  /\ st.error = ""
  /\ st.no_conflicts # "absent"
\* the requested interval overlaps the busy interval
OverlapsBusy(t, duration_min) ==
  LET busyStart == DateOf(t) + BusyHour * 60 + BusyMinute
      busyEnd   == busyStart + BusyDuration
  IN  Weekday(t) = BusyWeekday /\ t < busyEnd /\ t + duration_min > busyStart

\* C15: the availability check of the workflow reports a conflict iff the
\* requested interval overlaps the busy interval Friday 15:00-15:30, a
\* partial overlap (Friday 14:45 for 60 minutes) included.
C15_ConflictIffOverlap ==
  JustCheckedAvailability =>
    (st.no_conflicts = "false" <=> OverlapsBusy(st.dt, st.duration_min))

\* the start times the availability stage queries the oracle for: the
\* requested start and the half-hour steps of the alternative search
QueriedStarts == {st.dt + k * SearchStep : k \in 0..((SearchHours * 60) \div SearchStep - 1)}
NearestFirst(t) == <<t + 30, t + 60, t + 120>>

\* C16: every availability result has at most 3 candidates and, when its
\* status is conflict, exactly start+30, start+60, start+120 in that order;
\* the state holds the same list after a conflict.
C16_ThreeCandidates ==
  /\ Len(st.proposed) <= 3
  /\ JustCheckedAvailability =>
       /\ \A t \in QueriedStarts :
            LET r == check_slot_availability(t, st.duration_min)
            IN  /\ Len(r.candidates) <= 3
                /\ r.status = "conflict" => r.candidates = NearestFirst(t)
       /\ st.no_conflicts = "false" => st.proposed = NearestFirst(st.dt)

C16_Witness ==
  /\ JustCheckedAvailability
  /\ st.no_conflicts = "false"
  /\ check_slot_availability(st.dt, st.duration_min).status = "conflict"
  /\ st.proposed = NearestFirst(st.dt)
  /\ st.proposed[1] < st.proposed[2]
  /\ st.proposed[2] < st.proposed[3]

\* C17: every weather assessment the state holds has the tier the global
\* mapping gives for its own rain probability, whichever oracle made it.
C17_TierDerivedFromProbability ==
  st.weather.set => st.weather.risk_category = risk_from_prob(st.weather.prob_rain)

\* a call of one of the two risk mappings has returned
RiskMapped == unit.done /\ unit.fn \in {"categorize_risk", "categorize_rain_risk"}

\* C18: for every rain probability p in 0..100 the risk mapping returns HIGH
\* iff p >= 60, MODERATE iff 30 <= p < 60 and LOW iff p < 30.
C18_RiskPartition ==
  RiskMapped =>
    /\ unit.out \in RiskCategory
    /\ unit.out = "high" <=> unit.prob_rain >= 60
    /\ unit.out = "moderate" <=> (30 <= unit.prob_rain /\ unit.prob_rain < 60)
    /\ unit.out = "low" <=> unit.prob_rain < 30

C18_Witness ==
  /\ RiskMapped
  /\ unit.fn = "categorize_risk"
  /\ unit.prob_rain = 60
  /\ unit.out = "high"

\* C19: validate_slot succeeds iff the city is non-empty after trimming, the
\* start is strictly after the clock read by the validator and the duration
\* is within 5..480; a start equal to that clock is rejected.
C19_ValidateIffInvariants ==
  (unit.done /\ unit.fn = "validate_slot") =>
    (unit.out = "" <=>
       /\ strip(unit.slot.city) # ""
       /\ unit.slot.datetime > unit.clock
       /\ unit.slot.duration >= 5
       /\ unit.slot.duration <= 480)

\* the weather oracle failed on its first call and answered the retry
WeatherRetrySucceeded == weatherMode = "flaky" /\ weatherCalls >= 2
JustCheckedWeather == Len(path) >= 1 /\ path[Len(path)] = "check_weather"
EnteredRecover == \E i \in 1..Len(path) : path[i] = "error_recovery"

FirstClarificationMade ==
  /\ pc = "END"
  /\ entryCount = 0
  /\ st.clarification_needed # {}
\* what the request lacks or gets wrong, read off the request itself
CityMissing == request.empty \/ request.city = ""
TimeMissingOrInvalid ==
  \/ request.empty
  \/ ~_has_explicit_time_reference(request)
  \/ ~parse_relative_time(request, now).ok
  \/ parse_relative_time(request, now).dt <= now
  \/ parseKind = "ValidationError"
DurationInvalid ==
  /\ ~request.empty
  /\ \/ _extract_duration(request) < MinDuration
     \/ _extract_duration(request) > MaxDuration

\* C21: the first clarification message names time iff the datetime is
\* missing or invalid, location iff the city is missing, and duration iff
\* the duration is invalid.
C21_ClarificationNamesWhatIsMissing ==
  FirstClarificationMade =>
    /\ "time" \in st.clarification_needed <=> TimeMissingOrInvalid
    /\ "location" \in st.clarification_needed <=> CityMissing
    /\ "duration" \in st.clarification_needed <=> DurationInvalid

\* the request names a city and a time that is still ahead when the
\* validator reads the clock, and carries no duration token
DefaultDurationCase ==
  /\ ~request.empty
  /\ request.city # ""
  /\ request.dur = 0
  /\ _has_explicit_time_reference(request)
  /\ parse_relative_time(request, now).ok
  /\ parse_relative_time(request, now).dt > now + MaxTick

Count(node) == Cardinality({i \in 1..Len(path) : path[i] = node})

\* C23: every invocation reaches the terminal stage, and does so within
\* the step limit; Recover is entered at most twice; the retry counter
\* equals the number of Recover entries and never decreases.
C23_Terminates ==
  /\ <>(pc = "END")
  /\ [](Len(path) < MaxSteps)
  /\ [](Count("error_recovery") <= 2 /\ st.retry_count = Count("error_recovery"))
  /\ [][st'.retry_count >= st.retry_count]_vars

\* position of the three middle stages in the graph's main line
Rank(node) ==
  CASE node = "check_weather" -> 1
    [] node = "find_free_slot" -> 2
    [] node = "confirm_or_adjust" -> 3
    [] OTHER -> 0

\* C24: in every invocation ParseIntent executes exactly once and first,
\* Finalize executes exactly once and last, CheckWeather, CheckAvailability
\* and DecidePolicy each execute at most once and only in that order, and
\* Recover never routes back to ParseIntent.
C24_StageOrder ==
  /\ Len(path) >= 1 => (path[1] = "intent_and_slots" /\ Count("intent_and_slots") = 1)
  /\ pc = "intent_and_slots" => Len(path) = 0
  /\ \A i \in 1..Len(path) : path[i] = "create_event" => i = Len(path)
  /\ Stopped => (Count("create_event") = 1 /\ path[Len(path)] = "create_event")
  /\ \A i, j \in 1..Len(path) :
       (i < j /\ Rank(path[i]) > 0 /\ Rank(path[j]) > 0) => Rank(path[i]) < Rank(path[j])

\* the weather stage stored an assessment of tier HIGH for the requested time
HighRiskReported == st.weather.set /\ st.weather.risk_category = "high"

\* C25: a run for which the weather oracle reported HIGH rain risk never
\* ends confirmed; it ends adjusted or conflict, also when the availability
\* check fails afterwards and is degraded.
C25_HighRiskNeverConfirmed ==
  (pc = "END" /\ HighRiskReported) => Summary.status \in {"adjusted", "conflict"}

\* Recover wrote an EventSummary before Finalize ran (only Recover and
\* Finalize write one)
RecoverWroteSummary == pc = "END" /\ EnteredRecover /\ preFinal.event_summary.set

\* C26: when Recover has written a terminal error EventSummary, Finalize
\* leaves it as it is: the final EventSummary is the one Recover wrote.
C26_FinalizeKeepsRecoverSummary ==
  RecoverWroteSummary => st.event_summary = preFinal.event_summary

\* the action Finalize acts on: the recorded decision's, or the CREATE it
\* substitutes when there is no decision but a degradation note
FinalAction ==
  IF preFinal.policy_decision.action = "" /\ preFinal.degradation_notes # <<>>
  THEN "create"
  ELSE preFinal.policy_decision.action
\* the run ended as a clarification request, a conflict, an adjustment or a
\* parse error
EndedWithoutCreate ==
  /\ Stopped
  /\ \/ st.clarification_needed # {}
     \/ Summary.status \in {"conflict", "adjusted"}
     \/ parseKind # "ok"

\* C27: createEvent is invoked at most once per invocation, only by
\* Finalize and only when the action Finalize acts on is CREATE; a run that
\* ends as a clarification request, a conflict, an adjustment or a parse
\* error has invoked it never and carries no event_id.
C27_CreateOnlyOnCreate ==
  /\ createCalls <= 1
  /\ pc # "END" => createCalls = 0
  /\ createCalls = 1 => FinalAction = "create"
  /\ EndedWithoutCreate => (createCalls = 0 /\ lastEventId = 0 /\ Summary.event_id = 0)
C27_Witness ==
  /\ pc = "END"
  /\ createCalls = 1
  /\ FinalAction = "create"
  /\ lastEventId = Summary.event_id
  /\ Summary.event_id > 0

\* create_event was invoked at Finalize and raised CalendarServiceError
CreateFailed == createCalls = 1 /\ createFails

\* C28: when createEvent fails with a calendar service error at Finalize,
\* the run still ends, with a well-formed EventSummary of status error and
\* no event_id, and no exception leaves the invocation.
C28_CreateFailureIsReported ==
  CreateFailed =>
    /\ pc = "END"
    /\ Summary.set
    /\ Summary.status = "error"
    /\ Summary.summary_text # ""
    /\ Summary.reason = "calendar_unavailable"
    /\ Summary.event_id = 0
    /\ lastEventId = 0
C28_Witness ==
  /\ CreateFailed
  /\ pc = "END"
  /\ Summary.status = "error"
  /\ Summary.summary_text = "Failed to create event"

\* the four slot fields of the workflow state
SlotFields(s) == <<s.city, s.dt, s.duration_min, s.attendees>>
\* the slot ParseIntent stored for the request
ParsedSlot ==
  <<request.city, parse_relative_time(request, now).dt, _extract_duration(request),
    parse_natural_language(request, now).slot.attendees>>

\* C29: once ParseIntent has succeeded, no later stage changes city, start
\* time, duration or attendees; the state keeps the parsed slot to the end,
\* the duration included, also when an alternative time is suggested.
C29_SlotIsReadOnly ==
  /\ [][parseKind = "ok" => SlotFields(st') = SlotFields(st)]_vars
  /\ [](parseKind = "ok" => SlotFields(st) = ParsedSlot)
C29_Witness ==
  /\ pc = "END"
  /\ parseKind = "ok"
  /\ Len(path) >= 5
  /\ st.suggested_time # NoTime
  /\ st.suggested_time # st.dt
  /\ SlotFields(st) = ParsedSlot
  /\ st.duration_min = 60

\* the availability stage has run on a parsed request
AvailabilityStageRan == parseKind = "ok" /\ Count("find_free_slot") = 1
\* what the two oracles report for a step of the search: a forecast whose
\* tier is not HIGH, and an available slot (an oracle that is down reports
\* nothing; a flaky one has answered by the time the search starts)
Qualifies(t) ==
  /\ weatherMode # "down"
  /\ get_forecast(t).risk_category # "high"
  /\ calendarMode # "down"
  /\ check_slot_availability(t, st.duration_min).status = "available"
\* the stage looks for an alternative: HIGH rain risk or a conflict
NeedsAlternative == st.rain_risk = "high" \/ st.no_conflicts = "false"
\* availability calls of the search: all but the stage's own check
SearchSteps ==
  CASE calendarMode = "down" -> 0
    [] calendarMode = "flaky" -> calendarCalls - MaxAttempts
    [] OTHER -> calendarCalls - 1

\* C30: a suggested alternative time is the earliest 30-minute step in
\* [start, start + 8 hours) at which the forecast's tier is not HIGH and the
\* calendar reports the slot available; the search takes at most 16 steps
\* and records nothing when no step qualifies.
C30_EarliestQualifyingStep ==
  AvailabilityStageRan =>
    /\ st.suggested_time # NoTime =>
         /\ st.suggested_time \in QueriedStarts
         /\ Qualifies(st.suggested_time)
         /\ \A t \in QueriedStarts : t < st.suggested_time => ~Qualifies(t)
    /\ (\A t \in QueriedStarts : ~Qualifies(t)) => st.suggested_time = NoTime
    /\ (NeedsAlternative /\ \E t \in QueriedStarts : Qualifies(t)) =>
         st.suggested_time # NoTime
    /\ SearchSteps \in 0..((SearchHours * 60) \div SearchStep)
C30_Witness ==
  /\ AvailabilityStageRan
  /\ InRainyWindow(st.dt)
  /\ st.suggested_time = DateOf(st.dt) + RainyEndHour * 60
  /\ st.suggested_time > st.dt + SearchStep
  /\ Qualifies(st.suggested_time)
  /\ SearchSteps = (st.suggested_time - st.dt) \div SearchStep + 1

\* the times an EventSummary carries: its alternatives (the model has no
\* other time-valued field; summary_text, reason and notes are fixed texts)
SummaryTimes(summary) == {summary.alternatives[i] : i \in 1..Len(summary.alternatives)}
\* the run ended adjusted and the availability stage had found an alternative
AdjustedWithSuggestion ==
  pc = "END" /\ Summary.status = "adjusted" /\ st.suggested_time # NoTime

\* C31: when a run ends with status adjusted and a suggested alternative
\* time was found, the EventSummary carries that time.
C31_SummaryCarriesSuggestedTime ==
  AdjustedWithSuggestion => st.suggested_time \in SummaryTimes(Summary)

\* C32: two workflow instances built with different oracle
\* implementations and run in any interleaving each call only their own
\* oracles: what an instance's stages call is what it was built with.
C32_InstancesUseOwnOracles ==
  \A i \in Instances :
    /\ used[i].weather \in {NoTool, graphs[i].weather}
    /\ used[i].calendar \in {NoTool, graphs[i].calendar}

\* the parser was called directly and has returned or raised
Parsed == unit.fn = "parse_natural_language" /\ unit.done
\* the text names no city; it has no date word and no clock token, so its
\* datetime can only come from the default fallback
LacksCity(req) == req.city = ""
LacksTimeCue(req) == req.day = "none" /\ req.clock = NoClock

\* C33: for a request with neither a city nor an explicit time or date cue
\* the parser raises one error that reports both failures, and a datetime
\* obtained only by default fallback is reported as missing, not accepted.
C33_ParserCollectsFailures ==
  (Parsed /\ ~unit.req.empty) =>
    /\ (LacksCity(unit.req) /\ LacksTimeCue(unit.req)) =>
         /\ unit.out.kind = "ParseError"
         /\ {"location", "time"} \subseteq Words(unit.out.msg)
    /\ LacksTimeCue(unit.req) =>
         /\ unit.out.kind = "ParseError"
         /\ "time" \in Words(unit.out.msg)

\* the run ended with a conflict summary
EndedConflict == pc = "END" /\ Summary.status = "conflict"

\* C34: every alternative of a conflict EventSummary is strictly later than
\* the requested start and free of calendar conflict for the requested
\* duration: it overlaps no busy interval and the availability oracle
\* reports it available.
C34_AlternativesLaterAndFree ==
  EndedConflict =>
    \A alt \in SummaryTimes(Summary) :
      /\ alt > st.dt
      /\ check_conflicts(alt, st.duration_min) = <<>>
      /\ check_slot_availability(alt, st.duration_min).status = "available"
C34_Witness ==
  /\ EndedConflict
  /\ AtBusySlot(st.dt)
  /\ Summary.alternatives = <<st.dt + 30, st.dt + 60, st.dt + 120>>
  /\ check_conflicts(st.dt, st.duration_min) # <<>>

\* a date was resolved for a text with the given kind of date words
Resolved(day) == unit.fn = "_extract_date" /\ unit.done /\ unit.req.day = day
\* whole days from today to the resolved date
DaysAhead == (DateOf(unit.out) - DateOf(unit.clock)) \div DayMinutes

\* C35: resolving a weekday name yields a date on that weekday, strictly
\* after today and at most 7 days ahead; exactly 7 days ahead when today is
\* that weekday.
C35_NextWeekday ==
  Resolved("weekday") =>
    /\ Weekday(unit.out) = unit.req.wd
    /\ DaysAhead \in 1..7
    /\ Weekday(unit.clock) = unit.req.wd => DaysAhead = 7
C35_Witness ==
  /\ Resolved("weekday")
  /\ Weekday(unit.clock) = unit.req.wd
  /\ unit.out = unit.clock + 7 * DayMinutes

\* C36: for a text with both "next week" and a weekday name the resolved
\* date falls on that weekday and is at least 7 days after today, whatever
\* today's weekday and the named weekday.
C36_NextWeekWeekday ==
  Resolved("next week weekday") =>
    /\ Weekday(unit.out) = unit.req.wd
    /\ DaysAhead >= 7

\* find_free_slot_tool was called with the busy slot as preferred time
ToolCalledAtBusySlot ==
  unit.fn = "find_free_slot_tool" /\ unit.done /\ AtBusySlot(unit.slot.datetime)

\* C37: find_free_slot_tool called with a busy requested time (Friday
\* 15:00) returns success = true with a free_slot whose start differs from
\* the requested time and has no calendar conflict for the duration.
C37_FindFreeSlotFromBusyTime ==
  ToolCalledAtBusySlot =>
    /\ unit.out.success
    /\ unit.out.free_slot # NoTime
    /\ unit.out.free_slot # unit.slot.datetime
    /\ check_conflicts(unit.out.free_slot, unit.slot.duration) = <<>>

\* the endpoint's answer for the invocation that has stopped
Response == schedule_event(st, pc = "RAISED")
\* the workflow ended as a clarification request for a caller who, like the
\* endpoint, passed no clarification_count
EndedAsClarification == pc = "END" /\ entryCount = 0 /\ st.clarification_needed # {}

\* C38: when the workflow ends as a clarification request, the endpoint's
\* response flags the clarification and includes its message (the
\* categories it asks for) rather than a generic error.
C38_EndpointSurfacesClarification ==
  EndedAsClarification =>
    /\ Response.clarification_needed
    /\ st.clarification_needed \subseteq (Response.missing_fields \cup Words(Response.error))
    /\ Response.error # "no_result_generated"

====
